---- MODULE Spec2Model ----
(***************************************************************************)
(* gokrazy/kernel: the host orchestrators (gokr-rebuild-kernel,            *)
(* gokr-rebuild-uboot), the container recipe they render and the           *)
(* in-container build drivers (gokr-build-kernel, gokr-build-uboot).       *)
(*                                                                         *)
(* Host programs are named                                                 *)
(*   "kernel"    cmd/gokr-rebuild-kernel/kernel.go                         *)
(*   "uboot"     cmd/gokr-rebuild-uboot/uboot.go                           *)
(*   "kernelsig" unnamed/part_002 (gokr-rebuild-kernel with signal         *)
(*               handling and the fatal()/deferred-exit discipline)        *)
(*   "kernelold" unnamed/part_001 (gokr-rebuild-kernel, docker only)       *)
(* and build drivers "kernel" (cmd/gokr-build-kernel/build.go) and         *)
(* "uboot" (cmd/gokr-build-uboot/build.go).                                *)
(***************************************************************************)
EXTENDS Integers, Sequences, FiniteSets, TLC

VARIABLES
    \* ---- recipe rendering (dockerFileTmpl.Execute) ----
    render1,      \* first rendering: NoRender or [prog, patches, uid, gid, text]
    render2,      \* second rendering of the same patch list with another uid/gid
    \* ---- in-container build driver ----
    dprog,        \* which driver runs: "kernel" or "uboot"
    dhost,        \* the host program whose recipe filled /usr/src
    dcpu,         \* runtime.NumCPU() in the container
    dpc,          \* position in the driver's main
    dstages,      \* stages started so far, in order
    dresult,      \* stage -> "none" | "ok" | "fail"
    dhttp,        \* what http.Get returned, NoResponse before the call
    dglob,        \* result of filepath.Glob("*.patch")
    dapplied,     \* patch files handed to the patch tool, in order
    dconfig,      \* state of .config: "none", "default", "appended", "reconciled"
    dmake,        \* log of make invocations
    dout,         \* file names written under /tmp/buildresult
    dexit,        \* exit status of the driver, NotExited while running
    \* ---- host orchestrator ----
    prog,         \* which host program runs
    pc,           \* position in the host's main
    idx,          \* loop index of the find loop / the copy-out sequence
    executable,   \* the container engine path main settled on
    tmpCreated,   \* the temporary directory was created by this run
    tmpExists,    \* the temporary directory exists on disk
    fatalErr,     \* part_002's fatalErr != nil
    stepFailed,   \* some step of the run returned an error
    panicking,    \* a deferred call panicked (nil *ProcessState)
    shared,       \* files in the temporary directory left by the container
    dest,         \* destination artifacts in the repository checkout
    child,        \* the container-run child process
    childBlocks,  \* the container does not exit on its own
    ctxDone,      \* the context of exec.CommandContext is cancelled
    notify,       \* signal.Notify has been called
    sigChan,      \* number of signals buffered in signalChan (capacity 1)
    sigpc,        \* position of the signal goroutine
    nsig,         \* signals delivered to the process so far
    events,       \* externally visible operations of the run, in order
    exitStatus,   \* exit status of the host process, NotExited while running
    probe,        \* what the engine selection was given and what it returned
    dlog,         \* what the driver has written to standard error about patches
    inv,          \* concurrent invocations of host programs on one engine
    tags          \* the image each image tag of the engine names

recipeVars == <<render1, render2>>
driverVars == <<dprog, dhost, dcpu, dpc, dstages, dresult, dhttp, dglob, dapplied,
                dconfig, dmake, dout, dexit>>
hostVars   == <<prog, pc, idx, executable, tmpCreated, tmpExists, fatalErr,
                stepFailed, panicking,
                shared, dest, child, childBlocks, ctxDone, notify,
                sigChan, sigpc, nsig, events, exitStatus>>
selectVars == <<probe>>
logVars    == <<dlog>>
tagVars    == <<inv, tags>>
vars       == <<recipeVars, driverVars, hostVars, selectVars, logVars, tagVars>>

NotExited == 0 - 1

(***************************************************************************)
(* The patch lists the host programs declare (var patchFiles).             *)
(***************************************************************************)
kernelPatchFiles ==
    << "0001-Revert-add-index-to-the-ethernet-alias.patch",
       "0201-enable-spidev.patch",
       "0001-gokrazy-logo.patch" >>

ubootPatchFiles ==
    << "boot.cmd",
       "0001-uboot-quadra.patch" >>

kerneloldPatchFiles ==
    << "0001-Revert-add-index-to-the-ethernet-alias.patch",
       "0001-lan78xx.patch",
       "0003-lan78xx.patch",
       "0004-lan78xx.patch",
       "0005-lan78xx.patch",
       "0006-lan78xx.patch",
       "0007-lan78xx.patch",
       "0008-lan78xx.patch",
       "0009-lan78xx.patch",
       "0010-lan78xx.patch",
       "0000-dt-rpi3b+.patch",
       "0001-dt-rpi3b+.patch",
       "0002-dt-rpi3b+.patch",
       "0003-dt-rpi3b+.patch",
       "0004-dt-rpi3b+.patch",
       "0005-dt-rpi3b+.patch",
       "0101-expose-UART0-ttyAMA0-on-GPIO-14-15-disable-UART1-tty.patch",
       "0102-expose-UART0-ttyAMA0-on-GPIO-14-15-disable-UART1-tty.patch" >>

kernelsigPatchFiles ==
    << "0001-Revert-add-index-to-the-ethernet-alias.patch",
       "0101-expose-UART0-ttyAMA0-on-GPIO-14-15-disable-UART1-tty.patch",
       "0102-expose-UART0-ttyAMA0-on-GPIO-14-15-disable-UART1-tty.patch",
       "0103-expose-UART0-ttyAMA0-on-GPIO-14-15-disable-UART1-tty.patch",
       "0104-bluetooth.patch",
       "0105-bluetooth-cm4.patch",
       "0201-enable-spidev.patch",
       "0001-gokrazy-logo.patch" >>

(***************************************************************************)
(* The bytes of every declared file name: Go compares and matches strings  *)
(* byte by byte (sort.Strings in filepath.Glob, the "*.patch" pattern).    *)
(***************************************************************************)
NameBytes ==
    "0001-Revert-add-index-to-the-ethernet-alias.patch" :>
        << 48, 48, 48, 49, 45, 82, 101, 118, 101, 114, 116, 45, 97, 100, 100, 45, 105, 110, 100, 101, 120, 45, 116, 111, 45, 116, 104, 101, 45, 101, 116, 104, 101, 114, 110, 101, 116, 45, 97, 108, 105, 97, 115, 46, 112, 97, 116, 99, 104 >> @@
    "0201-enable-spidev.patch" :>
        << 48, 50, 48, 49, 45, 101, 110, 97, 98, 108, 101, 45, 115, 112, 105, 100, 101, 118, 46, 112, 97, 116, 99, 104 >> @@
    "0001-gokrazy-logo.patch" :>
        << 48, 48, 48, 49, 45, 103, 111, 107, 114, 97, 122, 121, 45, 108, 111, 103, 111, 46, 112, 97, 116, 99, 104 >> @@
    "boot.cmd" :>
        << 98, 111, 111, 116, 46, 99, 109, 100 >> @@
    "0001-uboot-quadra.patch" :>
        << 48, 48, 48, 49, 45, 117, 98, 111, 111, 116, 45, 113, 117, 97, 100, 114, 97, 46, 112, 97, 116, 99, 104 >> @@
    "0001-lan78xx.patch" :>
        << 48, 48, 48, 49, 45, 108, 97, 110, 55, 56, 120, 120, 46, 112, 97, 116, 99, 104 >> @@
    "0003-lan78xx.patch" :>
        << 48, 48, 48, 51, 45, 108, 97, 110, 55, 56, 120, 120, 46, 112, 97, 116, 99, 104 >> @@
    "0004-lan78xx.patch" :>
        << 48, 48, 48, 52, 45, 108, 97, 110, 55, 56, 120, 120, 46, 112, 97, 116, 99, 104 >> @@
    "0005-lan78xx.patch" :>
        << 48, 48, 48, 53, 45, 108, 97, 110, 55, 56, 120, 120, 46, 112, 97, 116, 99, 104 >> @@
    "0006-lan78xx.patch" :>
        << 48, 48, 48, 54, 45, 108, 97, 110, 55, 56, 120, 120, 46, 112, 97, 116, 99, 104 >> @@
    "0007-lan78xx.patch" :>
        << 48, 48, 48, 55, 45, 108, 97, 110, 55, 56, 120, 120, 46, 112, 97, 116, 99, 104 >> @@
    "0008-lan78xx.patch" :>
        << 48, 48, 48, 56, 45, 108, 97, 110, 55, 56, 120, 120, 46, 112, 97, 116, 99, 104 >> @@
    "0009-lan78xx.patch" :>
        << 48, 48, 48, 57, 45, 108, 97, 110, 55, 56, 120, 120, 46, 112, 97, 116, 99, 104 >> @@
    "0010-lan78xx.patch" :>
        << 48, 48, 49, 48, 45, 108, 97, 110, 55, 56, 120, 120, 46, 112, 97, 116, 99, 104 >> @@
    "0000-dt-rpi3b+.patch" :>
        << 48, 48, 48, 48, 45, 100, 116, 45, 114, 112, 105, 51, 98, 43, 46, 112, 97, 116, 99, 104 >> @@
    "0001-dt-rpi3b+.patch" :>
        << 48, 48, 48, 49, 45, 100, 116, 45, 114, 112, 105, 51, 98, 43, 46, 112, 97, 116, 99, 104 >> @@
    "0002-dt-rpi3b+.patch" :>
        << 48, 48, 48, 50, 45, 100, 116, 45, 114, 112, 105, 51, 98, 43, 46, 112, 97, 116, 99, 104 >> @@
    "0003-dt-rpi3b+.patch" :>
        << 48, 48, 48, 51, 45, 100, 116, 45, 114, 112, 105, 51, 98, 43, 46, 112, 97, 116, 99, 104 >> @@
    "0004-dt-rpi3b+.patch" :>
        << 48, 48, 48, 52, 45, 100, 116, 45, 114, 112, 105, 51, 98, 43, 46, 112, 97, 116, 99, 104 >> @@
    "0005-dt-rpi3b+.patch" :>
        << 48, 48, 48, 53, 45, 100, 116, 45, 114, 112, 105, 51, 98, 43, 46, 112, 97, 116, 99, 104 >> @@
    "0101-expose-UART0-ttyAMA0-on-GPIO-14-15-disable-UART1-tty.patch" :>
        << 48, 49, 48, 49, 45, 101, 120, 112, 111, 115, 101, 45, 85, 65, 82, 84, 48, 45, 116, 116, 121, 65, 77, 65, 48, 45, 111, 110, 45, 71, 80, 73, 79, 45, 49, 52, 45, 49, 53, 45, 100, 105, 115, 97, 98, 108, 101, 45, 85, 65, 82, 84, 49, 45, 116, 116, 121, 46, 112, 97, 116, 99, 104 >> @@
    "0102-expose-UART0-ttyAMA0-on-GPIO-14-15-disable-UART1-tty.patch" :>
        << 48, 49, 48, 50, 45, 101, 120, 112, 111, 115, 101, 45, 85, 65, 82, 84, 48, 45, 116, 116, 121, 65, 77, 65, 48, 45, 111, 110, 45, 71, 80, 73, 79, 45, 49, 52, 45, 49, 53, 45, 100, 105, 115, 97, 98, 108, 101, 45, 85, 65, 82, 84, 49, 45, 116, 116, 121, 46, 112, 97, 116, 99, 104 >> @@
    "0103-expose-UART0-ttyAMA0-on-GPIO-14-15-disable-UART1-tty.patch" :>
        << 48, 49, 48, 51, 45, 101, 120, 112, 111, 115, 101, 45, 85, 65, 82, 84, 48, 45, 116, 116, 121, 65, 77, 65, 48, 45, 111, 110, 45, 71, 80, 73, 79, 45, 49, 52, 45, 49, 53, 45, 100, 105, 115, 97, 98, 108, 101, 45, 85, 65, 82, 84, 49, 45, 116, 116, 121, 46, 112, 97, 116, 99, 104 >> @@
    "0104-bluetooth.patch" :>
        << 48, 49, 48, 52, 45, 98, 108, 117, 101, 116, 111, 111, 116, 104, 46, 112, 97, 116, 99, 104 >> @@
    "0105-bluetooth-cm4.patch" :>
        << 48, 49, 48, 53, 45, 98, 108, 117, 101, 116, 111, 111, 116, 104, 45, 99, 109, 52, 46, 112, 97, 116, 99, 104 >>

HostProgs == {"kernel", "uboot", "kernelsig", "kernelold"}

patchFiles(p) ==
    CASE p = "kernel"    -> kernelPatchFiles
      [] p = "uboot"     -> ubootPatchFiles
      [] p = "kernelsig" -> kernelsigPatchFiles
      [] p = "kernelold" -> kerneloldPatchFiles

(***************************************************************************)
(* Bounds of the model.                                                    *)
(***************************************************************************)
MaxPatches == 2
MaxSignals == 1
MaxCPU == 3
MaxInvocations == 2

(***************************************************************************)
(* The container recipe: dockerFileContents executed by text/template.     *)
(* A text is the sequence of its lines, a line the sequence of its literal *)
(* and substituted pieces; an empty line is <<>>.                          *)
(***************************************************************************)
BaseImage(p) ==
    CASE p = "kernel"    -> "debian:buster"
      [] p = "uboot"     -> "debian:bullseye"
      [] p = "kernelsig" -> "debian:stretch"
      [] p = "kernelold" -> "debian:stretch"

Packages(p) ==
    CASE p = "kernel" ->
           "crossbuild-essential-arm64 bc libssl-dev bison flex kmod python3"
      [] p = "uboot" ->
           "crossbuild-essential-armhf crossbuild-essential-arm64 python3 python3-setuptools python3-dev swig bc libssl-dev bison flex unzip"
      [] p = "kernelsig" -> "crossbuild-essential-arm64 bc libssl-dev bison flex"
      [] p = "kernelold" -> "crossbuild-essential-arm64 bc libssl-dev bison flex"

DriverName(p) == IF p = "uboot" THEN "gokr-build-uboot" ELSE "gokr-build-kernel"

CopyLine(path) == <<"COPY ", path, " /usr/src/", path>>

UserLine(uid, gid) ==
    <<"RUN echo 'builduser:x:", uid, ":", gid, ":nobody:/:/bin/sh' >> /etc/passwd && \\">>

ChownLine(uid, gid) == <<"    chown -R ", uid, ":", gid, " /usr/src">>

RecipeHead(p) ==
    << <<>>,
       <<"FROM ", BaseImage(p)>>,
       <<>>,
       <<"RUN apt-get update && apt-get install -y ", Packages(p)>>,
       <<>>,
       <<"COPY ", DriverName(p), " /usr/bin/", DriverName(p)>> >>

CopyLinesReversed(patches) ==
    [i \in 1..Len(patches) |-> CopyLine(patches[Len(patches) + 1 - i])]

\* {{- range $idx, $path := .Patches }} COPY ... {{- end }}
CopyLines(patches) == [i \in 1..Len(patches) |-> CopyLine(patches[i])]

RecipeTailUserById(p, uid, gid) ==
    << <<>>,
       UserLine(uid, gid),
       ChownLine(uid, gid),
       <<>>,
       <<"USER ", uid>>,
       <<"WORKDIR /usr/src">>,
       <<"ENTRYPOINT /usr/bin/", DriverName(p)>> >>

RecipeTail(p, uid, gid) ==
    << <<>>,
       UserLine(uid, gid),
       ChownLine(uid, gid),
       <<>>,
       <<"USER builduser">>,
       <<"WORKDIR /usr/src">>,
       <<"ENTRYPOINT /usr/bin/", DriverName(p)>> >>

\* dockerFileTmpl.Execute(dockerFile, {Uid, Gid, BuildPath, Patches})
Render(p, patches, uid, gid) ==
    RecipeHead(p) \o CopyLines(patches) \o RecipeTail(p, uid, gid)

NoRender == [done |-> FALSE]

\* Inputs of the rendering: the declared lists and every short list over a
\* few declared names (repetitions included), and a few numeric ids.
SampleNames == {"0201-enable-spidev.patch", "0001-gokrazy-logo.patch", "boot.cmd"}

SeqsUpTo(S, n) == UNION {[1..k -> S] : k \in 0..n}

PatchLists == {patchFiles(p) : p \in HostProgs} \cup SeqsUpTo(SampleNames, MaxPatches)

Ids == {"0", "1000", "1001"}

RecipeInit ==
    /\ render1 = NoRender
    /\ render2 = NoRender

RenderFirst ==
    /\ ~render1.done
    /\ \E p \in HostProgs, patches \in PatchLists, uid \in Ids, gid \in Ids :
         render1' = [done |-> TRUE, prog |-> p, patches |-> patches,
                     uid |-> uid, gid |-> gid,
                     text |-> Render(p, patches, uid, gid)]
    /\ UNCHANGED <<render2, driverVars, hostVars, selectVars, logVars, tagVars>>

RenderAgain ==
    /\ render1.done
    /\ ~render2.done
    /\ \E uid \in Ids, gid \in Ids :
         render2' = [done |-> TRUE, prog |-> render1.prog,
                     patches |-> render1.patches, uid |-> uid, gid |-> gid,
                     text |-> Render(render1.prog, render1.patches, uid, gid)]
    /\ UNCHANGED <<render1, driverVars, hostVars, selectVars, logVars, tagVars>>

(***************************************************************************)
(* The in-container build drivers (gokr-build-kernel, gokr-build-uboot).   *)
(***************************************************************************)
DriverProgs == {"kernel", "uboot"}

\* The hosts whose image runs driver d (the recipe's ENTRYPOINT).
HostsOf(d) == {p \in HostProgs : DriverName(p) = "gokr-build-" \o d}

StageOrder == <<"Fetch", "Unpack", "Patch", "Configure", "Compile", "Export">>

Stages == {StageOrder[i] : i \in 1..Len(StageOrder)}

StatusOK == 200

\* what http.Get returns: a transport error, or a response with a status code
HttpOutcomes ==
    {[called |-> TRUE, err |-> TRUE, status |-> 0]}
    \cup {[called |-> TRUE, err |-> FALSE, status |-> s] : s \in {200, 404, 500}}

NoResponse == [called |-> FALSE, err |-> FALSE, status |-> 0]

downloadIgnoringStatus(createOk, resp, copyOk) ==
    IF ~createOk THEN "err"
    ELSE IF resp.err THEN "err"
    ELSE IF ~copyOk THEN "err"
    ELSE "ok"

\* downloadKernel / downloadUBoot: os.Create, http.Get, the status check,
\* io.Copy and Close.  createOk: os.Create succeeded; resp: what http.Get
\* returned; copyOk: io.Copy and Close succeeded.
download(createOk, resp, copyOk) ==
    IF ~createOk THEN "err"
    ELSE IF resp.err THEN "err"
    ELSE IF resp.status # StatusOK THEN "err"
    ELSE IF ~copyOk THEN "err"
    ELSE "ok"

\* a < b for byte strings, as Go's string comparison
RECURSIVE BytesLess(_, _)
BytesLess(a, b) ==
    IF b = <<>> THEN FALSE
    ELSE IF a = <<>> THEN TRUE
    ELSE IF Head(a) # Head(b) THEN Head(a) < Head(b)
    ELSE BytesLess(Tail(a), Tail(b))

NameLess(m, n) == BytesLess(NameBytes[m], NameBytes[n])

HasSuffix(b, suffix) ==
    /\ Len(b) >= Len(suffix)
    /\ SubSeq(b, Len(b) - Len(suffix) + 1, Len(b)) = suffix

\* the pattern "*.patch": any name (no separator) ending in ".patch"
MatchesPatchGlob(n) == HasSuffix(NameBytes[n], <<46, 112, 97, 116, 99, 104>>)

RECURSIVE SetToSeq(_)
SetToSeq(S) ==
    IF S = {} THEN <<>>
    ELSE LET x == CHOOSE y \in S : TRUE IN <<x>> \o SetToSeq(S \ {x})

Range(s) == {s[i] : i \in 1..Len(s)}

\* The files the recipe copied to /usr/src (WORKDIR), one per COPY line.
SrcDirFiles(h) == Range(patchFiles(h))

\* filepath.Glob("*.patch"): the matching names of the directory, sorted.
Glob(files) == SortSeq(SetToSeq({n \in files : MatchesPatchGlob(n)}), NameLess)

\* the -j argument of the compile invocation of make
MakeJobs(d, ncpu) == IF d = "kernel" THEN 8 ELSE ncpu

\* the files main exports with copyFile("/tmp/buildresult/<name>", ...)
exportNames(d) ==
    IF d = "kernel" THEN <<"vmlinuz", "rpi-3-b.dtb">>
    ELSE <<"u-boot.bin", "boot.scr">>

\* A line of the driver's log about a patch.  what: "applying" (the line
\* gokr-build-uboot prints before each patch) or the text of the error
\* passed to log.Fatal; name: the patch file the line names, "" if none.
LogLine(what, name) == [what |-> what, name |-> name]

\* applyPatches: log.Printf("applying patch %q", patch), in gokr-build-uboot only
applyLog(d, name) == IF d = "uboot" THEN <<LogLine("applying", name)>> ELSE <<>>

\* applyPatches returns the error of os.Open, a *PathError naming the file,
\* or that of cmd.Run, an *ExitError ("exit status 1")
patchError(openOk, name) ==
    IF ~openOk THEN LogLine("open", name) ELSE LogLine("exit status", "")

DriverIdle ==
    /\ dlog = <<>>
    /\ dprog = "kernel"
    /\ dhost = "kernel"
    /\ dcpu = 1
    /\ dpc = "idle"
    /\ dstages = <<>>
    /\ dresult = [s \in Stages |-> "none"]
    /\ dhttp = NoResponse
    /\ dglob = <<>>
    /\ dapplied = <<>>
    /\ dconfig = "none"
    /\ dmake = <<>>
    /\ dout = {}
    /\ dexit = NotExited

DriverInit ==
    /\ dlog = <<>>
    /\ dprog \in DriverProgs
    /\ dhost \in HostsOf(dprog)
    /\ dcpu \in 1..MaxCPU
    /\ dpc = "download"
    /\ dstages = <<>>
    /\ dresult = [s \in Stages |-> "none"]
    /\ dhttp = NoResponse
    /\ dglob = <<>>
    /\ dapplied = <<>>
    /\ dconfig = "none"
    /\ dmake = <<>>
    /\ dout = {}
    /\ dexit = NotExited

\* a step of stage s begins
Enter(s) ==
    dstages' = IF dstages # <<>> /\ dstages[Len(dstages)] = s
               THEN dstages ELSE Append(dstages, s)

\* log.Fatal: the driver exits with status 1 at once
DriverFatal(s) ==
    /\ dpc' = "exited"
    /\ dexit' = 1
    /\ dresult' = IF s \in Stages THEN [dresult EXCEPT ![s] = "fail"] ELSE dresult

Download ==
    /\ dpc = "download"
    /\ Enter("Fetch")
    /\ \E createOk \in BOOLEAN, resp \in HttpOutcomes, copyOk \in BOOLEAN :
         /\ dhttp' = IF createOk THEN resp ELSE NoResponse
         /\ IF download(createOk, resp, copyOk) = "ok"
            THEN /\ dpc' = "unpack"
                 /\ dresult' = [dresult EXCEPT !["Fetch"] = "ok"]
                 /\ UNCHANGED dexit
            ELSE DriverFatal("Fetch")
    /\ UNCHANGED <<dprog, dhost, dcpu, dglob, dapplied, dconfig, dmake, dout>>
    /\ UNCHANGED <<recipeVars, hostVars, selectVars, logVars, tagVars>>

\* tar xf / unzip -q
Unpack ==
    /\ dpc = "unpack"
    /\ Enter("Unpack")
    /\ \E ok \in BOOLEAN :
         IF ok
         THEN /\ dpc' = "glob"
              /\ dresult' = [dresult EXCEPT !["Unpack"] = "ok"]
              /\ UNCHANGED dexit
         ELSE DriverFatal("Unpack")
    /\ UNCHANGED <<dprog, dhost, dcpu, dhttp, dglob, dapplied, dconfig, dmake, dout>>
    /\ UNCHANGED <<recipeVars, hostVars, selectVars, logVars, tagVars>>

\* applyPatches: patches, err := filepath.Glob("*.patch")
GlobPatches ==
    /\ dpc = "glob"
    /\ Enter("Patch")
    /\ dglob' = Glob(SrcDirFiles(dhost))
    /\ dpc' = "apply"
    /\ UNCHANGED <<dprog, dhost, dcpu, dresult, dhttp, dapplied, dconfig, dmake, dout, dexit>>
    /\ UNCHANGED <<recipeVars, hostVars, selectVars, logVars, tagVars>>

\* applyPatches: one iteration of the loop (os.Open, patch -p1), or its end
ApplyPatch ==
    /\ dpc = "apply"
    /\ UNCHANGED dstages
    /\ IF Len(dapplied) = Len(dglob)
       THEN /\ dpc' = IF dprog = "uboot" THEN "abs" ELSE "chdir"
            /\ dresult' = [dresult EXCEPT !["Patch"] = "ok"]
            /\ UNCHANGED <<dapplied, dexit, dlog>>
       ELSE \E openOk \in BOOLEAN, patchOk \in BOOLEAN :
              LET patch == dglob[Len(dapplied) + 1] IN
              /\ dapplied' = IF openOk THEN Append(dapplied, patch) ELSE dapplied
              /\ IF openOk /\ patchOk
                 THEN /\ dlog' = dlog \o applyLog(dprog, patch)
                      /\ UNCHANGED <<dpc, dresult, dexit>>
                 ELSE /\ dlog' = dlog \o applyLog(dprog, patch)
                                    \o <<patchError(openOk, patch)>>
                      /\ DriverFatal("Patch")
    /\ UNCHANGED <<dprog, dhost, dcpu, dhttp, dglob, dconfig, dmake, dout>>
    /\ UNCHANGED <<recipeVars, hostVars, selectVars, tagVars>>

\* gokr-build-uboot: filepath.Abs("boot.cmd")
AbsBootCmd ==
    /\ dpc = "abs"
    /\ \E ok \in BOOLEAN :
         IF ok THEN dpc' = "chdir" /\ UNCHANGED <<dresult, dexit>>
         ELSE DriverFatal("none")
    /\ UNCHANGED <<dprog, dhost, dcpu, dstages, dhttp, dglob, dapplied, dconfig, dmake, dout>>
    /\ UNCHANGED <<recipeVars, hostVars, selectVars, logVars, tagVars>>

\* os.Chdir(srcdir)
Chdir ==
    /\ dpc = "chdir"
    /\ \E ok \in BOOLEAN :
         IF ok THEN dpc' = "defconfig" /\ UNCHANGED <<dresult, dexit>>
         ELSE DriverFatal("none")
    /\ UNCHANGED <<dprog, dhost, dcpu, dstages, dhttp, dglob, dapplied, dconfig, dmake, dout>>
    /\ UNCHANGED <<recipeVars, hostVars, selectVars, logVars, tagVars>>

MakeCall(target, jobs) == [target |-> target, jobs |-> jobs, config |-> dconfig]

\* compile: make ARCH=... defconfig
Defconfig ==
    /\ dpc = "defconfig"
    /\ Enter("Configure")
    /\ dmake' = Append(dmake, MakeCall("defconfig", 0))
    /\ \E ok \in BOOLEAN :
         IF ok
         THEN /\ dpc' = "append"
              /\ dconfig' = "default"
              /\ UNCHANGED <<dresult, dexit>>
         ELSE DriverFatal("Configure") /\ UNCHANGED dconfig
    /\ UNCHANGED <<dprog, dhost, dcpu, dhttp, dglob, dapplied, dout>>
    /\ UNCHANGED <<recipeVars, hostVars, selectVars, logVars, tagVars>>

\* compile: os.OpenFile(".config", O_APPEND), Write, Close
AppendConfig ==
    /\ dpc = "append"
    /\ UNCHANGED dstages
    /\ \E openOk \in BOOLEAN, writeOk \in BOOLEAN :
         /\ dconfig' = IF openOk THEN "appended" ELSE dconfig
         /\ IF openOk /\ writeOk
            THEN /\ dpc' = IF dprog = "kernel" THEN "olddefconfig" ELSE "make"
                 /\ dresult' = IF dprog = "kernel" THEN dresult
                               ELSE [dresult EXCEPT !["Configure"] = "ok"]
                 /\ UNCHANGED dexit
            ELSE DriverFatal("Configure")
    /\ UNCHANGED <<dprog, dhost, dcpu, dhttp, dglob, dapplied, dmake, dout>>
    /\ UNCHANGED <<recipeVars, hostVars, selectVars, logVars, tagVars>>

\* gokr-build-kernel compile: make ARCH=arm64 olddefconfig
Olddefconfig ==
    /\ dpc = "olddefconfig"
    /\ UNCHANGED dstages
    /\ dmake' = Append(dmake, MakeCall("olddefconfig", 0))
    /\ \E ok \in BOOLEAN :
         IF ok
         THEN /\ dpc' = "make"
              /\ dconfig' = "reconciled"
              /\ dresult' = [dresult EXCEPT !["Configure"] = "ok"]
              /\ UNCHANGED dexit
         ELSE DriverFatal("Configure") /\ UNCHANGED dconfig
    /\ UNCHANGED <<dprog, dhost, dcpu, dhttp, dglob, dapplied, dout>>
    /\ UNCHANGED <<recipeVars, hostVars, selectVars, logVars, tagVars>>

\* compile: make Image.gz dtbs -j8 / make u-boot.bin -jNumCPU
Make ==
    /\ dpc = "make"
    /\ Enter("Compile")
    /\ dmake' = Append(dmake, MakeCall("compile", MakeJobs(dprog, dcpu)))
    /\ \E ok \in BOOLEAN :
         IF ok
         THEN /\ dpc' = IF dprog = "uboot" THEN "bootscr" ELSE "export"
              /\ dresult' = IF dprog = "uboot" THEN dresult
                            ELSE [dresult EXCEPT !["Compile"] = "ok"]
              /\ UNCHANGED dexit
         ELSE DriverFatal("Compile")
    /\ UNCHANGED <<dprog, dhost, dcpu, dhttp, dglob, dapplied, dconfig, dout>>
    /\ UNCHANGED <<recipeVars, hostVars, selectVars, logVars, tagVars>>

\* gokr-build-uboot: generateBootScr (./tools/mkimage ... boot.scr)
GenerateBootScr ==
    /\ dpc = "bootscr"
    /\ UNCHANGED dstages
    /\ \E ok \in BOOLEAN :
         IF ok
         THEN /\ dpc' = "export"
              /\ dresult' = [dresult EXCEPT !["Compile"] = "ok"]
              /\ UNCHANGED dexit
         ELSE DriverFatal("Compile")
    /\ UNCHANGED <<dprog, dhost, dcpu, dhttp, dglob, dapplied, dconfig, dmake, dout>>
    /\ UNCHANGED <<recipeVars, hostVars, selectVars, logVars, tagVars>>

\* main: copyFile("/tmp/buildresult/<name>", <built file>); os.Create makes
\* the result file before the built file is opened.
ExportFile ==
    /\ dpc = "export"
    /\ Cardinality(dout) < Len(exportNames(dprog))
    /\ Enter("Export")
    /\ \E createOk \in BOOLEAN, copyOk \in BOOLEAN :
         /\ dout' = IF createOk
                    THEN dout \cup {exportNames(dprog)[Cardinality(dout) + 1]}
                    ELSE dout
         /\ IF createOk /\ copyOk
            THEN UNCHANGED <<dpc, dresult, dexit>>
            ELSE DriverFatal("Export")
    /\ UNCHANGED <<dprog, dhost, dcpu, dhttp, dglob, dapplied, dconfig, dmake>>
    /\ UNCHANGED <<recipeVars, hostVars, selectVars, logVars, tagVars>>

\* main returns: exit status 0
DriverReturn ==
    /\ dpc = "export"
    /\ Cardinality(dout) = Len(exportNames(dprog))
    /\ dpc' = "exited"
    /\ dexit' = 0
    /\ dresult' = [dresult EXCEPT !["Export"] = "ok"]
    /\ UNCHANGED <<dprog, dhost, dcpu, dstages, dhttp, dglob, dapplied, dconfig, dmake, dout>>
    /\ UNCHANGED <<recipeVars, hostVars, selectVars, logVars, tagVars>>

DriverNext ==
    \/ Download \/ Unpack \/ GlobPatches \/ ApplyPatch \/ AbsBootCmd \/ Chdir
    \/ Defconfig \/ AppendConfig \/ Olddefconfig \/ Make \/ GenerateBootScr
    \/ ExportFile \/ DriverReturn

(***************************************************************************)
(* The host orchestrators.                                                 *)
(***************************************************************************)
RunProgs == {"kernel", "uboot", "kernelsig"}

\* Files: contents (a byte string) and mode bits, or no file.
File(data, mode) == [exists |-> TRUE, data |-> data, mode |-> mode]

NoFile == [exists |-> FALSE, data |-> <<>>, mode |-> 0]

\* What the container may leave under a name in the shared directory:
\* nothing, an empty file, or a file with contents.
FileVals == {NoFile, File(<<>>, 420), File(<<1, 2>>, 493)}

\* A destination artifact of the checkout before the run.
OldFile == File(<<9>>, 420)

Pair(d, s) == [dest |-> d, src |-> s]

\* main: the copyFile(<found destination>, filepath.Join(tmp, <name>)) calls
copyOuts(p) ==
    CASE p = "kernel" ->
           << Pair("vmlinuz", "vmlinuz"),
              Pair("bcm2710-rpi-3-b.dtb", "bcm2710-rpi-3-b.dtb"),
              Pair("bcm2710-rpi-zero-2.dtb", "bcm2710-rpi-zero-2-w.dtb"),
              Pair("bcm2710-rpi-3-b-plus.dtb", "bcm2710-rpi-3-b-plus.dtb"),
              Pair("bcm2710-rpi-cm3.dtb", "bcm2710-rpi-cm3.dtb"),
              Pair("bcm2711-rpi-4-b.dtb", "bcm2711-rpi-4-b.dtb") >>
      [] p = "kernelsig" ->
           << Pair("vmlinuz", "vmlinuz"),
              Pair("bcm2710-rpi-3-b.dtb", "bcm2710-rpi-3-b.dtb"),
              Pair("bcm2710-rpi-zero-2.dtb", "bcm2710-rpi-3-b.dtb"),
              Pair("bcm2710-rpi-3-b-plus.dtb", "bcm2710-rpi-3-b-plus.dtb"),
              Pair("bcm2710-rpi-cm3.dtb", "bcm2710-rpi-cm3.dtb"),
              Pair("bcm2711-rpi-4-b.dtb", "bcm2711-rpi-4-b.dtb") >>
      [] p = "uboot" ->
           << Pair("u-boot.bin", "u-boot.bin"),
              Pair("boot.scr", "boot.scr") >>
      [] p = "kernelold" ->
           << Pair("vmlinuz", "vmlinuz"),
              Pair("bcm2710-rpi-3-b.dtb", "bcm2710-rpi-3-b.dtb"),
              Pair("bcm2710-rpi-3-b-plus.dtb", "bcm2710-rpi-3-b-plus.dtb") >>

\* kernel.go replaces <lib>/modules by tmp/lib/modules after the copies
ModulesName == "lib/modules"

CopiesModules(p) == p = "kernel"

SrcNames(p) ==
    {copyOuts(p)[i].src : i \in 1..Len(copyOuts(p))}
    \cup (IF CopiesModules(p) THEN {ModulesName} ELSE {})

DestNames(p) ==
    {copyOuts(p)[i].dest : i \in 1..Len(copyOuts(p))}
    \cup (IF CopiesModules(p) THEN {ModulesName} ELSE {})

\* main: the names looked up with find, in order
findNames(p) ==
    patchFiles(p) \o
    (CASE p = "kernel" ->
            <<"vmlinuz", "bcm2710-rpi-3-b.dtb", "bcm2710-rpi-3-b-plus.dtb",
              "bcm2710-rpi-zero-2.dtb", "bcm2710-rpi-cm3.dtb",
              "bcm2711-rpi-4-b.dtb", "lib">>
       [] p = "kernelsig" ->
            <<"vmlinuz", "bcm2710-rpi-3-b.dtb", "bcm2710-rpi-3-b-plus.dtb",
              "bcm2710-rpi-zero-2.dtb", "bcm2710-rpi-cm3.dtb",
              "bcm2711-rpi-4-b.dtb">>
       [] p = "uboot" -> <<"u-boot.bin", "boot.scr">>)

findWithoutSecondStat(inCwd, inGopath) ==
    IF inCwd THEN [err |-> FALSE, path |-> "cwd"]
    ELSE [err |-> FALSE, path |-> "gopath"]

\* find(filename): the current directory first, then the GOPATH checkout
find(inCwd, inGopath) ==
    IF inCwd THEN [err |-> FALSE, path |-> "cwd"]
    ELSE IF inGopath THEN [err |-> FALSE, path |-> "gopath"]
    ELSE [err |-> TRUE, path |-> ""]

\* exec.LookPath followed by filepath.EvalSymlinks for one candidate:
\* not on the search path, found but not resolvable, or the resolved path
LookResults == {"notfound", "unresolvable", "/usr/bin/podman", "/usr/bin/docker"}

Overrides == {"", "podman", "docker", "/opt/bin/nerdctl"}

\* getContainerExecutable, given what the two probes yield
getContainerExecutable(podman, docker) ==
    IF podman # "notfound"
    THEN (IF podman = "unresolvable"
          THEN [err |-> TRUE, path |-> ""]
          ELSE [err |-> FALSE, path |-> podman])
    ELSE IF docker # "notfound"
    THEN (IF docker = "unresolvable"
          THEN [err |-> TRUE, path |-> ""]
          ELSE [err |-> FALSE, path |-> docker])
    ELSE [err |-> TRUE, path |-> ""]

\* filepath.Base
Base(path) ==
    CASE path = "/usr/bin/podman"  -> "podman"
      [] path = "/usr/bin/docker"  -> "docker"
      [] path = "/opt/bin/nerdctl" -> "nerdctl"
      [] OTHER -> path

execName == Base(executable)

\* os.Create truncates an existing file and keeps its mode
Truncated(d) == IF d.exists THEN File(<<>>, d.mode) ELSE File(<<>>, 420)

copyFileWithoutChmod(d, s, createOk, copyOk) ==
    IF ~createOk THEN [err |-> TRUE, out |-> d]
    ELSE IF ~s.exists THEN [err |-> TRUE, out |-> Truncated(d)]
    ELSE IF ~copyOk THEN [err |-> TRUE, out |-> Truncated(d)]
    ELSE [err |-> FALSE, out |-> File(s.data, Truncated(d).mode)]

copyFileLenient(d, s, createOk, copyOk) ==
    IF ~createOk THEN [err |-> TRUE, out |-> d]
    ELSE IF ~s.exists THEN [err |-> FALSE, out |-> Truncated(d)]
    ELSE IF ~copyOk THEN [err |-> TRUE, out |-> Truncated(d)]
    ELSE [err |-> FALSE, out |-> File(s.data, s.mode)]

\* copyFile(dest, src): os.Create(dest), os.Open(src), io.Copy, Stat, Chmod,
\* Close.  d, s: the files at dest and src; createOk: os.Create succeeds;
\* copyOk: io.Copy, Stat, Chmod and Close succeed.
copyFile(d, s, createOk, copyOk) ==
    IF ~createOk THEN [err |-> TRUE, out |-> d]
    ELSE IF ~s.exists THEN [err |-> TRUE, out |-> Truncated(d)]
    ELSE IF ~copyOk THEN [err |-> TRUE, out |-> Truncated(d)]
    ELSE [err |-> FALSE, out |-> File(s.data, s.mode)]

\* The log of the run's externally visible operations.
Event(op, arg, ok) == [op |-> op, arg |-> arg, ok |-> ok, flags |-> ""]

\* a find(name) call; flags tells whether the file was in neither place
FindEvent(name, ok, inCwd, inGopath) ==
    [op |-> "find", arg |-> name, ok |-> ok,
     flags |-> IF inCwd \/ inGopath THEN "" ELSE "missing"]

StartEvent(exe, flags) == [op |-> "start", arg |-> exe, ok |-> TRUE, flags |-> flags]

\* part_002 fatal(e): log.Println(e); fatalErr = e  (TRUE: a non-nil error)
fatal(e) == e

\* *ProcessState of dockerRun: nil until a started child has been waited for
ProcessStateNil == child \in {"none", "startfailed"}

ProcessStateSuccessAlways == TRUE

\* dockerRun.ProcessState.Success()
ProcessStateSuccess == child = "exited0"

KilledBySignal == 128 + 2

\* a step succeeded: go on with the next statement
Proceed(ev, next) ==
    /\ events' = Append(events, ev)
    /\ pc' = next
    /\ UNCHANGED <<fatalErr, exitStatus, stepFailed>>

\* a step failed.  kernel.go, uboot.go: log.Fatal, i.e. os.Exit(1) without
\* running deferred calls.  part_002: fatal(err); return, i.e. the deferred
\* calls registered so far run, starting at `deferred`.
Fail(ev, deferred) ==
    /\ stepFailed' = TRUE
    /\ IF prog = "kernelsig"
       THEN /\ fatalErr' = fatal(TRUE)
            /\ pc' = deferred
            /\ events' = Append(events, ev)
            /\ UNCHANGED exitStatus
       ELSE /\ pc' = "exited"
            /\ exitStatus' = 1
            /\ events' = events \o <<ev, Event("exit", "1", TRUE)>>
            /\ UNCHANGED fatalErr

\* The inputs of an engine selection and its result, as far as recorded.
NoProbe == [done |-> FALSE, podman |-> "", docker |-> "", nerdctl |-> "",
            override |-> "", err |-> FALSE, path |-> ""]

\* What the search path holds under the name nerdctl: nothing, or a binary
\* that is or is not the one an override names by its path.
NerdctlResults == {"notfound", "/usr/bin/nerdctl", "/opt/bin/nerdctl"}

\* exec.Command(name): a name without a separator is looked up on the search
\* path (lookPath), a path is used as it is.  The binary the command runs.
Lookup(name) ==
    CASE name = "podman"  -> probe.podman
      [] name = "docker"  -> probe.docker
      [] name = "nerdctl" -> probe.nerdctl
      [] OTHER -> name

\* Cmd.Run of a command of that name can start a process (where the search
\* path of the run is known)
CanStart(name) == probe.done => Lookup(name) \notin {"notfound", "unresolvable"}

HostIdle ==
    /\ probe = NoProbe
    /\ prog = "kernel"
    /\ pc = "idle"
    /\ idx = 0
    /\ executable = ""
    /\ tmpCreated = FALSE
    /\ tmpExists = FALSE
    /\ fatalErr = FALSE
    /\ stepFailed = FALSE
    /\ panicking = FALSE
    /\ shared = [n \in SrcNames("kernel") |-> NoFile]
    /\ dest = [n \in DestNames("kernel") |-> OldFile]
    /\ child = "none"
    /\ childBlocks = FALSE
    /\ ctxDone = FALSE
    /\ notify = FALSE
    /\ sigChan = 0
    /\ sigpc = "none"
    /\ nsig = 0
    /\ events = <<>>
    /\ exitStatus = NotExited

HostInitFor(progs) ==
    /\ probe = NoProbe
    /\ prog \in progs
    /\ pc = "select"
    /\ idx = 0
    /\ executable = ""
    /\ tmpCreated = FALSE
    /\ tmpExists = FALSE
    /\ fatalErr = FALSE
    /\ stepFailed = FALSE
    /\ panicking = FALSE
    /\ shared = [n \in SrcNames(prog) |-> NoFile]
    /\ dest = [n \in DestNames(prog) |-> OldFile]
    /\ child = "none"
    /\ childBlocks = FALSE
    /\ ctxDone = FALSE
    /\ notify = FALSE
    /\ sigChan = 0
    /\ sigpc = "none"
    /\ nsig = 0
    /\ events = <<>>
    /\ exitStatus = NotExited

\* main: getContainerExecutable and the -overwrite_container_executable flag,
\* for given results of the two probes and a given flag value
Select(podman, docker, ov) ==
    /\ pc = "select"
    /\ LET r == getContainerExecutable(podman, docker) IN
       IF r.err
       THEN /\ Fail(Event("select", "", FALSE), "deferexit")
            /\ UNCHANGED executable
       ELSE /\ executable' = IF ov # "" THEN ov ELSE r.path
            /\ Proceed(Event("select", executable', TRUE), "mktemp")
    /\ UNCHANGED <<prog, idx, tmpCreated, tmpExists, panicking, shared, dest, child,
                   childBlocks, ctxDone, notify, sigChan, sigpc, nsig>>
    /\ UNCHANGED <<recipeVars, driverVars, logVars, tagVars>>

\* the first statements of main in a run
SelectEngine ==
    /\ \E podman \in LookResults, docker \in LookResults, ov \in Overrides :
         Select(podman, docker, ov)
    /\ UNCHANGED <<selectVars, logVars, tagVars>>

\* the same statements, with the probes' results, the flag and the result of
\* getContainerExecutable kept for inspection
SelectEngineProbed ==
    /\ \E podman \in LookResults, docker \in LookResults, ov \in Overrides,
          nerdctl \in NerdctlResults :
         /\ Select(podman, docker, ov)
         /\ UNCHANGED <<logVars, tagVars>>
         /\ probe' = [done |-> TRUE, podman |-> podman, docker |-> docker,
                      nerdctl |-> nerdctl, override |-> ov,
                      err |-> getContainerExecutable(podman, docker).err,
                      path |-> getContainerExecutable(podman, docker).path]

\* main: ioutil.TempDir / os.MkdirTemp, defer os.RemoveAll(tmp)
MkTemp ==
    /\ pc = "mktemp"
    /\ \E ok \in BOOLEAN :
         IF ok
         THEN /\ tmpCreated' = TRUE
              /\ tmpExists' = TRUE
              /\ Proceed(Event("mktemp", "", TRUE), "install")
         ELSE /\ Fail(Event("mktemp", "", FALSE), "deferexit")
              /\ UNCHANGED <<tmpCreated, tmpExists>>
    /\ UNCHANGED <<prog, idx, executable, panicking, shared, dest, child,
                   childBlocks, ctxDone, notify, sigChan, sigpc, nsig>>
    /\ UNCHANGED <<recipeVars, driverVars, selectVars, logVars, tagVars>>

\* main: go build / go install of the build driver into tmp.  part_002 calls
\* fatal on an error here and goes on with the next statement.
InstallDriver ==
    /\ pc = "install"
    /\ idx' = 1
    /\ \E ok \in BOOLEAN :
         IF ok
         THEN Proceed(Event("install", "", TRUE), "find")
         ELSE IF prog = "kernelsig"
         THEN /\ stepFailed' = TRUE
              /\ fatalErr' = fatal(TRUE)
              /\ pc' = "find"
              /\ events' = Append(events, Event("install", "", FALSE))
              /\ UNCHANGED exitStatus
         ELSE Fail(Event("install", "", FALSE), "deferrm")
    /\ UNCHANGED <<prog, executable, tmpCreated, tmpExists, panicking, shared, dest,
                   child, childBlocks, ctxDone, notify, sigChan, sigpc, nsig>>
    /\ UNCHANGED <<recipeVars, driverVars, selectVars, logVars, tagVars>>

\* main: one find(...) call of the lookups of the patch files and destinations
FindFile ==
    /\ pc = "find"
    /\ \E inCwd \in BOOLEAN, inGopath \in BOOLEAN :
         LET r == find(inCwd, inGopath)
             name == findNames(prog)[idx] IN
         IF r.err
         THEN /\ Fail(FindEvent(name, FALSE, inCwd, inGopath), "deferrm")
              /\ UNCHANGED idx
         ELSE /\ idx' = idx + 1
              /\ Proceed(FindEvent(name, TRUE, inCwd, inGopath),
                         IF idx = Len(findNames(prog)) THEN "copyin" ELSE "find")
    /\ UNCHANGED <<prog, executable, tmpCreated, tmpExists, panicking, shared, dest,
                   child, childBlocks, ctxDone, notify, sigChan, sigpc, nsig>>
    /\ UNCHANGED <<recipeVars, driverVars, selectVars, logVars, tagVars>>

\* main: the loop copying the patch files into tmp
CopyPatchesIn ==
    /\ pc = "copyin"
    /\ \E ok \in BOOLEAN :
         IF ok
         THEN Proceed(Event("copyin", "", TRUE), "recipe")
         ELSE Fail(Event("copyin", "", FALSE), "deferrm")
    /\ UNCHANGED <<prog, idx, executable, tmpCreated, tmpExists, panicking, shared,
                   dest, child, childBlocks, ctxDone, notify, sigChan, sigpc, nsig>>
    /\ UNCHANGED <<recipeVars, driverVars, selectVars, logVars, tagVars>>

\* main: user.Current, os.Create(tmp/Dockerfile), dockerFileTmpl.Execute, Close
WriteRecipe ==
    /\ pc = "recipe"
    /\ \E ok \in BOOLEAN :
         IF ok
         THEN Proceed(Event("recipe", "", TRUE), "build")
         ELSE Fail(Event("recipe", "", FALSE), "deferrm")
    /\ UNCHANGED <<prog, idx, executable, tmpCreated, tmpExists, panicking, shared,
                   dest, child, childBlocks, ctxDone, notify, sigChan, sigpc, nsig>>
    /\ UNCHANGED <<recipeVars, driverVars, selectVars, logVars, tagVars>>

\* main: exec.Command(execName, "build", "--rm=true", "--tag=...", ".").Run()
ImageBuild ==
    /\ pc = "build"
    /\ \E ok \in BOOLEAN :
         /\ ok => CanStart(execName)
         /\ IF ok
            THEN Proceed(Event("build", execName, TRUE),
                         IF prog = "kernelsig" THEN "notify" ELSE "run")
            ELSE Fail(Event("build", execName, FALSE), "deferrm")
    /\ UNCHANGED <<prog, idx, executable, tmpCreated, tmpExists, panicking, shared,
                   dest, child, childBlocks, ctxDone, notify, sigChan, sigpc, nsig>>
    /\ UNCHANGED <<recipeVars, driverVars, selectVars, logVars, tagVars>>

\* part_002 main: context.WithCancel, the signal goroutine, signal.Notify
InstallSignalHandler ==
    /\ pc = "notify"
    /\ notify' = TRUE
    /\ sigpc' = "recv"
    /\ Proceed(Event("notify", "", TRUE), "run")
    /\ UNCHANGED <<prog, idx, executable, tmpCreated, tmpExists, panicking, shared,
                   dest, child, childBlocks, ctxDone, sigChan, nsig>>
    /\ UNCHANGED <<recipeVars, driverVars, selectVars, logVars, tagVars>>

\* the flags of the run command that depend on the engine
RunFlags == IF execName = "podman" THEN "--userns=keep-id" ELSE ""

\* main: dockerRun = exec.Command[Context](executable, "run", ...), the
\* deferred stop (part_002), and the start of dockerRun.Run().  A command
\* whose context is already cancelled is not started; a start may fail.
StartRun ==
    /\ pc = "run"
    /\ IF prog = "kernelsig" /\ ctxDone
       THEN /\ child' = "startfailed"
            /\ UNCHANGED childBlocks
            /\ Fail(Event("run", executable, FALSE), "deferstop")
       ELSE \E started \in BOOLEAN, blocks \in BOOLEAN :
              /\ started => CanStart(executable)
              /\ IF started
                 THEN /\ child' = "running"
                      /\ childBlocks' = blocks
                      /\ Proceed(StartEvent(executable, RunFlags), "wait")
                 ELSE /\ child' = "startfailed"
                      /\ UNCHANGED childBlocks
                      /\ Fail(Event("run", executable, FALSE), "deferstop")
    /\ UNCHANGED <<prog, idx, executable, tmpCreated, tmpExists, panicking, shared,
                   dest, ctxDone, notify, sigChan, sigpc, nsig>>
    /\ UNCHANGED <<recipeVars, driverVars, selectVars, logVars, tagVars>>

\* the container ends on its own: its exit status and what it left in the
\* shared directory
ChildExit ==
    /\ pc = "wait"
    /\ child = "running"
    /\ ~childBlocks
    /\ \E ok \in BOOLEAN, files \in [SrcNames(prog) -> FileVals] :
         /\ ModulesName \in SrcNames(prog) => files[ModulesName] # File(<<>>, 420)
         /\ child' = IF ok THEN "exited0" ELSE "exited1"
         /\ shared' = files
    /\ UNCHANGED <<prog, pc, idx, executable, tmpCreated, tmpExists, fatalErr,
                   stepFailed, panicking, dest, childBlocks, ctxDone, notify,
                   sigChan, sigpc, nsig, events, exitStatus>>
    /\ UNCHANGED <<recipeVars, driverVars, selectVars, logVars, tagVars>>

\* exec.CommandContext: once the context is cancelled the child is killed
KillChild ==
    /\ prog = "kernelsig"
    /\ pc = "wait"
    /\ child = "running"
    /\ ctxDone
    /\ child' = "killed"
    /\ UNCHANGED <<prog, pc, idx, executable, tmpCreated, tmpExists, fatalErr,
                   stepFailed, panicking, shared, dest, childBlocks, ctxDone,
                   notify, sigChan, sigpc, nsig, events, exitStatus>>
    /\ UNCHANGED <<recipeVars, driverVars, selectVars, logVars, tagVars>>

WaitedWithoutWaiting == child # "none"

\* cmd.Wait inside dockerRun.Run() has returned: the child has ended
Waited == child \in {"exited0", "exited1", "killed"}

\* dockerRun.Run() returns.  It reports an error when the child did not exit
\* with status 0; with a cancelled context it may report the context's error
\* although the child exited with status 0.
RunReturns ==
    /\ pc = "wait"
    /\ Waited
    /\ idx' = 1
    /\ \E ctxErr \in BOOLEAN :
         /\ ctxErr => prog = "kernelsig" /\ ctxDone /\ child = "exited0"
         /\ IF child = "exited0" /\ ~ctxErr
            THEN Proceed(Event("run", executable, TRUE), "copy")
            ELSE Fail(Event("run", executable, FALSE), "deferstop")
    /\ UNCHANGED <<prog, executable, tmpCreated, tmpExists, panicking, shared, dest,
                   child, childBlocks, ctxDone, notify, sigChan, sigpc, nsig>>
    /\ UNCHANGED <<recipeVars, driverVars, selectVars, logVars, tagVars>>

\* main: the idx-th copyFile(<destination>, tmp/<name>) after the run
CopyOut ==
    /\ pc = "copy"
    /\ idx <= Len(copyOuts(prog))
    /\ \E createOk \in BOOLEAN, copyOk \in BOOLEAN :
         LET c == copyOuts(prog)[idx]
             r == copyFile(dest[c.dest], shared[c.src], createOk, copyOk) IN
         /\ dest' = [dest EXCEPT ![c.dest] = r.out]
         /\ IF r.err
            THEN /\ Fail(Event("copy", c.dest, FALSE), "deferstop")
                 /\ UNCHANGED idx
            ELSE /\ idx' = idx + 1
                 /\ Proceed(Event("copy", c.dest, TRUE), "copy")
    /\ UNCHANGED <<prog, executable, tmpCreated, tmpExists, panicking, shared,
                   child, childBlocks, ctxDone, notify, sigChan, sigpc, nsig>>
    /\ UNCHANGED <<recipeVars, driverVars, selectVars, logVars, tagVars>>

\* main: after the last copy.  kernel.go goes on to the modules directory,
\* the others return.
CopiesDone ==
    /\ pc = "copy"
    /\ idx > Len(copyOuts(prog))
    /\ pc' = IF CopiesModules(prog) THEN "symlinks" ELSE "return"
    /\ UNCHANGED <<prog, idx, executable, tmpCreated, tmpExists, fatalErr,
                   stepFailed, panicking, shared, dest, child, childBlocks,
                   ctxDone, notify, sigChan, sigpc, nsig, events, exitStatus>>
    /\ UNCHANGED <<recipeVars, driverVars, selectVars, logVars, tagVars>>

\* kernel.go: remove the build and source symlinks under tmp/lib/modules/*
RemoveSymlinks ==
    /\ pc = "symlinks"
    /\ \E ok \in BOOLEAN :
         IF ok
         THEN Proceed(Event("symlinks", "", TRUE), "rmmodules")
         ELSE Fail(Event("symlinks", "", FALSE), "deferrm")
    /\ UNCHANGED <<prog, idx, executable, tmpCreated, tmpExists, panicking, shared,
                   dest, child, childBlocks, ctxDone, notify, sigChan, sigpc, nsig>>
    /\ UNCHANGED <<recipeVars, driverVars, selectVars, logVars, tagVars>>

\* kernel.go: rm -rf <lib>/modules
RemoveModules ==
    /\ pc = "rmmodules"
    /\ \E ok \in BOOLEAN :
         IF ok
         THEN /\ dest' = [dest EXCEPT ![ModulesName] = NoFile]
              /\ Proceed(Event("rmmodules", "", TRUE), "cpmodules")
         ELSE /\ Fail(Event("rmmodules", "", FALSE), "deferrm")
              /\ UNCHANGED dest
    /\ UNCHANGED <<prog, idx, executable, tmpCreated, tmpExists, panicking, shared,
                   child, childBlocks, ctxDone, notify, sigChan, sigpc, nsig>>
    /\ UNCHANGED <<recipeVars, driverVars, selectVars, logVars, tagVars>>

\* kernel.go: cp -r tmp/lib/modules <lib>
CopyModules ==
    /\ pc = "cpmodules"
    /\ \E ok \in BOOLEAN :
         IF ok /\ shared[ModulesName].exists
         THEN /\ dest' = [dest EXCEPT ![ModulesName] = shared[ModulesName]]
              /\ Proceed(Event("cpmodules", "", TRUE), "return")
         ELSE /\ Fail(Event("cpmodules", "", FALSE), "deferrm")
              /\ UNCHANGED dest
    /\ UNCHANGED <<prog, idx, executable, tmpCreated, tmpExists, panicking, shared,
                   child, childBlocks, ctxDone, notify, sigChan, sigpc, nsig>>
    /\ UNCHANGED <<recipeVars, driverVars, selectVars, logVars, tagVars>>

DeferredAfterExitFirst(d) ==
    CASE d = "return"    -> "deferstop"
      [] d = "deferstop" -> "deferexit"
      [] d = "deferrm"   -> "deferexit"

\* part_002: the deferred calls in the order they run when main returns, the
\* last registered first: the stop closure, os.RemoveAll(tmp), the closure
\* that calls os.Exit(1)
DeferredAfter(d) ==
    CASE d = "return"    -> "deferstop"
      [] d = "deferstop" -> "deferrm"
      [] d = "deferrm"   -> "deferexit"

\* main returns: the deferred calls run, last registered first
Return ==
    /\ pc = "return"
    /\ pc' = IF prog = "kernelsig" THEN DeferredAfter("return") ELSE "deferrm"
    /\ UNCHANGED <<prog, idx, executable, tmpCreated, tmpExists, fatalErr,
                   stepFailed, panicking, shared, dest, child, childBlocks,
                   ctxDone, notify, sigChan, sigpc, nsig, events, exitStatus>>
    /\ UNCHANGED <<recipeVars, driverVars, selectVars, logVars, tagVars>>

\* part_002: the deferred closure
\*   if !dockerRun.ProcessState.Success() { exec.Command(executable, "stop", id).Run() }
\* Success() on a nil *ProcessState panics; the remaining deferred calls run.
DeferredStop ==
    /\ pc = "deferstop"
    /\ pc' = DeferredAfter("deferstop")
    /\ IF ProcessStateNil
       THEN /\ panicking' = TRUE
            /\ events' = Append(events, Event("panic", "", FALSE))
       ELSE /\ UNCHANGED panicking
            /\ events' = IF ~ProcessStateSuccess
                         THEN Append(events, Event("stop", executable, TRUE))
                         ELSE events
    /\ UNCHANGED <<prog, idx, executable, tmpCreated, tmpExists, fatalErr,
                   stepFailed, shared, dest, child, childBlocks, ctxDone, notify,
                   sigChan, sigpc, nsig, exitStatus>>
    /\ UNCHANGED <<recipeVars, driverVars, selectVars, logVars, tagVars>>

\* defer os.RemoveAll(tmp)
DeferredRemoveAll ==
    /\ pc = "deferrm"
    /\ tmpExists' = FALSE
    /\ events' = Append(events, Event("rmtmp", "", TRUE))
    /\ pc' = IF prog = "kernelsig" THEN DeferredAfter("deferrm") ELSE "deferexit"
    /\ UNCHANGED <<prog, idx, executable, tmpCreated, fatalErr, stepFailed,
                   panicking, shared, dest, child, childBlocks, ctxDone, notify,
                   sigChan, sigpc, nsig, exitStatus>>
    /\ UNCHANGED <<recipeVars, driverVars, selectVars, logVars, tagVars>>

exitCodeIgnoringFatal(fe, pan) == IF pan THEN 2 ELSE 0

\* The end of the process.  part_002's first deferred closure calls
\* os.Exit(1) when fatalErr != nil; otherwise an unrecovered panic ends the
\* process with status 2 and a plain return of main with status 0.
exitCode(fe, pan) == IF fe THEN 1 ELSE IF pan THEN 2 ELSE 0

ProcessExit ==
    /\ pc = "deferexit"
    /\ pc' = "exited"
    /\ exitStatus' = exitCode(fatalErr, panicking)
    /\ events' = Append(events, Event("exit", "", TRUE))
    /\ UNCHANGED <<prog, idx, executable, tmpCreated, tmpExists, fatalErr,
                   stepFailed, panicking, shared, dest, child, childBlocks,
                   ctxDone, notify, sigChan, sigpc, nsig>>
    /\ UNCHANGED <<recipeVars, driverVars, selectVars, logVars, tagVars>>

\* SIGINT or SIGTERM reaches the host process.  Without signal.Notify the
\* signal ends the process at once; with it the signal is sent to signalChan
\* without blocking (the channel holds one signal).
DeliverSignal ==
    /\ pc # "exited"
    /\ nsig < MaxSignals
    /\ nsig' = nsig + 1
    /\ IF notify
       THEN /\ sigChan' = 1
            /\ UNCHANGED <<pc, exitStatus, events>>
       ELSE /\ pc' = "exited"
            /\ exitStatus' = KilledBySignal
            /\ events' = Append(events, Event("killed", "", TRUE))
            /\ UNCHANGED sigChan
    /\ UNCHANGED <<prog, idx, executable, tmpCreated, tmpExists, fatalErr,
                   stepFailed, panicking, shared, dest, child, childBlocks,
                   ctxDone, notify, sigpc>>
    /\ UNCHANGED <<recipeVars, driverVars, selectVars, logVars, tagVars>>

\* the signal goroutine: <-signalChan
SignalReceive ==
    /\ pc # "exited"
    /\ sigpc = "recv"
    /\ sigChan > 0
    /\ sigChan' = 0
    /\ sigpc' = "cancel"
    /\ UNCHANGED <<prog, pc, idx, executable, tmpCreated, tmpExists, fatalErr,
                   stepFailed, panicking, shared, dest, child, childBlocks,
                   ctxDone, notify, nsig, events, exitStatus>>
    /\ UNCHANGED <<recipeVars, driverVars, selectVars, logVars, tagVars>>

\* the signal goroutine: cancel(); log.Println("Stopping ...")
SignalCancel ==
    /\ pc # "exited"
    /\ sigpc = "cancel"
    /\ ctxDone' = TRUE
    /\ sigpc' = "done"
    /\ UNCHANGED <<prog, pc, idx, executable, tmpCreated, tmpExists, fatalErr,
                   stepFailed, panicking, shared, dest, child, childBlocks,
                   notify, sigChan, nsig, events, exitStatus>>
    /\ UNCHANGED <<recipeVars, driverVars, selectVars, logVars, tagVars>>

\* the statements of main and of its deferred calls
MainStep ==
    \/ SelectEngine \/ MkTemp \/ InstallDriver \/ FindFile \/ CopyPatchesIn
    \/ WriteRecipe \/ ImageBuild \/ StartRun \/ RunReturns \/ CopyOut
    \/ CopiesDone \/ Return \/ DeferredRemoveAll \/ ProcessExit

ModulesStep == RemoveSymlinks \/ RemoveModules \/ CopyModules

SignalStep ==
    \/ InstallSignalHandler \/ KillChild \/ DeferredStop \/ SignalReceive
    \/ SignalCancel

(***************************************************************************)
(* Concurrent invocations: the image tag is a name of the engine that all  *)
(* invocations on a host share; the build context and the temporary        *)
(* directory are each invocation's own.                                    *)
(***************************************************************************)
Invocations == 1..MaxInvocations

\* --tag=gokr-rebuild-kernel / --tag=gokr-rebuild-uboot, also the image
\* argument of the run command
ImageTag(p) == IF p = "uboot" THEN "gokr-rebuild-uboot" ELSE "gokr-rebuild-kernel"

ImageTags == {ImageTag(p) : p \in RunProgs}

\* no image: the tag names nothing, the invocation has run nothing
NoImage == 0

TagIdle ==
    /\ inv = [i \in Invocations |-> [prog |-> "kernel", pc |-> "idle", ran |-> NoImage]]
    /\ tags = [t \in ImageTags |-> NoImage]

TagInit ==
    /\ inv \in [Invocations -> [prog : RunProgs, pc : {"build"}, ran : {NoImage}]]
    /\ tags = [t \in ImageTags |-> NoImage]

\* invocation i: <engine> build --rm=true --tag=<tag> . in its own context;
\* on success the tag names the image built from that context
InvBuild(i) ==
    /\ inv[i].pc = "build"
    /\ \E ok \in BOOLEAN :
         IF ok
         THEN /\ tags' = [tags EXCEPT ![ImageTag(inv[i].prog)] = i]
              /\ inv' = [inv EXCEPT ![i].pc = "run"]
         ELSE /\ inv' = [inv EXCEPT ![i].pc = "failed"]
              /\ UNCHANGED tags
    /\ UNCHANGED <<recipeVars, driverVars, hostVars, selectVars, logVars>>

\* invocation i: <engine> run ... <tag>: the container is created from the
\* image the tag names when the command runs
InvRun(i) ==
    /\ inv[i].pc = "run"
    /\ \E ok \in BOOLEAN :
         inv' = [inv EXCEPT ![i].pc = IF ok THEN "copy" ELSE "failed",
                            ![i].ran = tags[ImageTag(inv[i].prog)]]
    /\ UNCHANGED tags
    /\ UNCHANGED <<recipeVars, driverVars, hostVars, selectVars, logVars>>

\* invocation i: the copies out of its own temporary directory
InvCopyOut(i) ==
    /\ inv[i].pc = "copy"
    /\ \E ok \in BOOLEAN :
         inv' = [inv EXCEPT ![i].pc = IF ok THEN "done" ELSE "failed"]
    /\ UNCHANGED tags
    /\ UNCHANGED <<recipeVars, driverVars, hostVars, selectVars, logVars>>

TagNext == \E i \in Invocations : InvBuild(i) \/ InvRun(i) \/ InvCopyOut(i)

(***************************************************************************)
(* Specifications.                                                         *)
(***************************************************************************)
\* the recipe rendered for a patch list and ids, and rendered again
RecipeSpecInit == RecipeInit /\ DriverIdle /\ HostIdle /\ TagIdle

RecipeNext == RenderFirst \/ RenderAgain

RecipeSpec == RecipeSpecInit /\ [][RecipeNext]_vars

\* a build driver run in the image a host program built
DriverSpecInit == RecipeInit /\ DriverInit /\ HostIdle /\ TagIdle

DriverSpec == DriverSpecInit /\ [][DriverNext]_vars

\* a run of a host program: gokr-rebuild-kernel (kernel.go, part_002) or
\* gokr-rebuild-uboot (uboot.go)
HostInit == RecipeInit /\ DriverIdle /\ HostInitFor(RunProgs) /\ TagIdle

HostNext == MainStep \/ ModulesStep \/ SignalStep \/ ChildExit \/ DeliverSignal

Spec == HostInit /\ [][HostNext]_vars

\* the engine selection at the start of a run, and the end of a run that
\* failed there
SelectInit == RecipeInit /\ DriverIdle /\ HostInitFor(RunProgs) /\ TagIdle

SelectNext == SelectEngineProbed \/ ProcessExit

SelectSpec == SelectInit /\ [][SelectNext]_vars

\* a run up to the start of the container, on a search path that is known
EngineInit == RecipeInit /\ DriverIdle /\ HostInitFor(RunProgs) /\ TagIdle

EngineNext ==
    \/ SelectEngineProbed \/ MkTemp \/ InstallDriver \/ FindFile
    \/ CopyPatchesIn \/ WriteRecipe \/ ImageBuild \/ InstallSignalHandler
    \/ StartRun \/ DeferredStop \/ DeferredRemoveAll \/ ProcessExit

EngineSpec == EngineInit /\ [][EngineNext]_vars

\* two invocations of host programs at the same time on one engine
TagSpecInit == RecipeInit /\ DriverIdle /\ HostIdle /\ TagInit

TagSpec == TagSpecInit /\ [][TagNext]_vars

\* a run of gokr-rebuild-kernel with signal handling (part_002) alone
SigInit == RecipeInit /\ DriverIdle /\ HostInitFor({"kernelsig"}) /\ TagIdle

SigNext == MainStep \/ SignalStep \/ ChildExit \/ DeliverSignal

SigSpec == SigInit /\ [][SigNext]_vars

\* Scheduling: the main goroutine, the signal goroutine and the watcher of
\* exec.CommandContext each keep running; the container ending on its own and
\* the arrival of signals are up to the environment.
SigFairSpec ==
    /\ SigSpec
    /\ WF_vars(MainStep \/ InstallSignalHandler \/ DeferredStop)
    /\ WF_vars(SignalReceive \/ SignalCancel)
    /\ WF_vars(KillChild)

(***************************************************************************)
(* Claims.                                                                 *)
(***************************************************************************)
Exited == pc = "exited"

EventIndexes(op) == {i \in 1..Len(events) : events[i].op = op}

\* the number of times the engine's stop command was issued
StopCount == Cardinality(EventIndexes("stop"))

\* a signal was delivered to signalChan while the container-run child, which
\* does not end on its own, is running
SignalWhileRunBlocked ==
    /\ prog = "kernelsig"
    /\ pc = "wait"
    /\ child = "running"
    /\ childBlocks
    /\ notify
    /\ sigChan = 1 \/ sigpc \in {"cancel", "done"}

\* the process has ended, the stop command was issued exactly once and the
\* temporary directory was removed before the exit
InterruptedRunEnded ==
    /\ Exited
    /\ StopCount = 1
    /\ ~tmpExists
    /\ \E i \in EventIndexes("rmtmp") : \A j \in EventIndexes("exit") : i < j

\* C2: in part_002, a signal delivered while the container-run child is
\* blocked leads to the end of the process, with the stop command issued
\* exactly once and the temporary directory removed before the exit.
C2_SignalDuringRunStopsOnceAndCleansUp == SignalWhileRunBlocked ~> InterruptedRunEnded

C2_Witness ==
    /\ prog = "kernelsig"
    /\ Exited
    /\ child = "killed"
    /\ childBlocks
    /\ StopCount = 1
    /\ ~tmpExists

\* C1: in kernel.go and uboot.go a run that created its temporary directory
\* and was not ended by a signal has removed it when the process has exited.
C1_TmpRemovedAtExit ==
    (prog \in {"kernel", "uboot"} /\ Exited /\ tmpCreated /\ nsig = 0) => ~tmpExists

\* some file the host copies out is absent from the shared directory
SomeOutputAbsent ==
    \E i \in 1..Len(copyOuts(prog)) : ~shared[copyOuts(prog)[i].src].exists

\* C3: if the container run exits with status 0 but a file the host copies
\* out is absent from the shared directory, the run exits non-zero.
C3_MissingOutputFailsRun ==
    (Exited /\ child = "exited0" /\ SomeOutputAbsent) => exitStatus # 0

C3_Witness ==
    /\ Exited
    /\ child = "exited0"
    /\ prog = "kernel"
    /\ shared["vmlinuz"].exists
    /\ ~shared["bcm2710-rpi-cm3.dtb"].exists
    /\ \E i \in EventIndexes("copy") : ~events[i].ok
    /\ exitStatus = 1

\* C4: the patch tool is invoked on the declared patches in the order of the
\* host's declaration (the entries of patchFiles that are patches).
C4_PatchOrderIsDeclarationOrder ==
    dresult["Patch"] = "ok" => dapplied = SelectSeq(patchFiles(dhost), MatchesPatchGlob)

IsPatchCopyLine(l) == Len(l) = 4 /\ l[1] = "COPY " /\ l[3] = " /usr/src/"

PatchCopyLines(text) == SelectSeq(text, IsPatchCopyLine)

\* C5: the recipe's COPY lines into /usr/src are one per entry of the patch
\* list, in the order of the list.
C5_CopyLinesFollowPatchList ==
    render1.done =>
        LET lines == PatchCopyLines(render1.text) IN
        /\ Len(lines) = Len(render1.patches)
        /\ \A i \in 1..Len(lines) :
             lines[i][2] = render1.patches[i] /\ lines[i][4] = render1.patches[i]

C5_Witness ==
    /\ render1.done
    /\ render1.patches = kernelPatchFiles
    /\ Len(PatchCopyLines(render1.text)) = 3

IsUserLine(l) == Len(l) > 0 /\ l[1] = "RUN echo 'builduser:x:"

IsChownLine(l) == Len(l) > 0 /\ l[1] = "    chown -R "

BothRendered == render1.done /\ render2.done

DifferingLines ==
    {i \in 1..Len(render1.text) : render1.text[i] # render2.text[i]}

\* C6 as stated: two renderings of one patch list with different (uid, gid)
\* differ in the user-creation line only; the chown line and every other
\* line are identical.
C6_OnlyUserLineDiffers ==
    BothRendered =>
        /\ Len(render1.text) = Len(render2.text)
        /\ \A i \in DifferingLines : IsUserLine(render1.text[i])

\* C6 amended: the two renderings differ in the user-creation line and the
\* chown line only, and in both of them when the (uid, gid) pairs differ.
C6_OnlyUserAndChownLinesDiffer ==
    BothRendered =>
        /\ Len(render1.text) = Len(render2.text)
        /\ \A i \in DifferingLines :
             IsUserLine(render1.text[i]) \/ IsChownLine(render1.text[i])
        /\ <<render1.uid, render1.gid>> # <<render2.uid, render2.gid>> =>
             /\ \E i \in DifferingLines : IsUserLine(render1.text[i])
             /\ \E i \in DifferingLines : IsChownLine(render1.text[i])

C6_Witness ==
    /\ BothRendered
    /\ render1.uid # render2.uid
    /\ render1.gid = render2.gid
    /\ Cardinality(DifferingLines) = 2

\* C7: after a driver run in which every stage succeeded, every file name
\* the paired host (kernel.go, uboot.go) copies out of the shared directory
\* has been written under /tmp/buildresult.
C7_DriverWritesWhatHostCopies ==
    (dexit = 0 /\ dhost \in {"kernel", "uboot"}) => SrcNames(dhost) \subseteq dout

\* C8: a run that exits 0 leaves no destination artifact empty.
C8_SuccessLeavesNoEmptyArtifact ==
    (Exited /\ exitStatus = 0) =>
        \A i \in 1..Len(copyOuts(prog)) :
            LET f == dest[copyOuts(prog)[i].dest] IN f.exists /\ f.data # <<>>

IsPrefix(s, t) == Len(s) <= Len(t) /\ SubSeq(t, 1, Len(s)) = s

\* C9: the driver's stages start in the order Fetch, Unpack, Patch,
\* Configure, Compile, Export, each only after the one before it succeeded;
\* a failed stage is the last one started; after a response whose status is
\* not 200, or a transport error, no stage after Fetch starts.
C9_StagesInOrderAndFailFast ==
    /\ IsPrefix(dstages, StageOrder)
    /\ \A i \in 2..Len(dstages) : dresult[dstages[i - 1]] = "ok"
    /\ \A s \in Stages :
         dresult[s] = "fail" => dstages # <<>> /\ dstages[Len(dstages)] = s
    /\ \A s \in Stages : dresult[s] # "none" => \E i \in 1..Len(dstages) : dstages[i] = s
    /\ (dhttp.called /\ (dhttp.err \/ dhttp.status # StatusOK)) =>
         (dstages = <<"Fetch">> /\ dpc = "exited")

C9_Witness ==
    /\ dhttp.called
    /\ dhttp.status = 404
    /\ dpc = "exited"
    /\ dexit = 1
    /\ dstages = <<"Fetch">>
    /\ dresult["Fetch"] = "fail"

\* every step of the run was executed and succeeded
AllStepsSucceeded ==
    /\ ~stepFailed
    /\ Cardinality({i \in EventIndexes("copy") : events[i].ok}) = Len(copyOuts(prog))

\* C10: part_002 exits with status 0 exactly when every step of the run
\* succeeded, and with a non-zero status whenever fatal() was called.
C10_ExitZeroIffAllStepsSucceeded ==
    (prog = "kernelsig" /\ Exited) =>
        /\ exitStatus = 0 <=> AllStepsSucceeded
        /\ fatalErr => exitStatus # 0

C10_Witness ==
    /\ prog = "kernelsig"
    /\ Exited
    /\ fatalErr
    /\ \E i \in EventIndexes("install") : ~events[i].ok
    /\ Cardinality({i \in EventIndexes("copy") : events[i].ok}) = Len(copyOuts(prog))
    /\ exitStatus = 1

\* the steps of the host pipeline, as they appear in the log of operations
PipelineOps ==
    {"select", "mktemp", "install", "find", "copyin", "recipe", "build",
     "start", "run", "copy"}

\* C11: in part_002, once a step of the pipeline has failed no further step
\* of the pipeline is executed, a failed driver install included.
C11_NoStepAfterFailedStep ==
    prog = "kernelsig" =>
        \A i \in 1..Len(events), j \in 1..Len(events) :
            (i < j /\ events[i].op \in PipelineOps /\ ~events[i].ok)
                => events[j].op \notin PipelineOps

\* C12: in part_002, a run whose signal goroutine has received a signal and
\* cancelled the context exits with a non-zero status.
C12_SignalAfterNotifyFailsRun ==
    (prog = "kernelsig" /\ Exited /\ ctxDone) => exitStatus # 0

\* C13: in part_002, a run that created its temporary directory and was
\* sent a signal has removed the directory when the process has ended.
C13_TmpRemovedWhenInterrupted ==
    (prog = "kernelsig" /\ Exited /\ tmpCreated /\ nsig > 0) => ~tmpExists

\* the container-run step returned an error
RunFailed == \E i \in EventIndexes("run") : ~events[i].ok

\* C14: in part_002, whenever the container-run step returned an error the
\* stop command was issued before the exit and the deferred stop closure
\* did not panic.
C14_FailedRunStopsContainer ==
    (prog = "kernelsig" /\ Exited /\ RunFailed) =>
        /\ ~panicking
        /\ \E i \in EventIndexes("stop") : \A j \in EventIndexes("exit") : i < j

Resolved(r) == r \notin {"notfound", "unresolvable"}

\* C15: getContainerExecutable returns the resolved path of podman when
\* podman is found and resolves, else that of docker when docker is found
\* and resolves, and an error only when neither resolves.
C15_SelectsFirstResolvableEngine ==
    probe.done =>
        /\ probe.err <=> (~Resolved(probe.podman) /\ ~Resolved(probe.docker))
        /\ Resolved(probe.podman) => probe.path = probe.podman
        /\ (~Resolved(probe.podman) /\ Resolved(probe.docker))
              => probe.path = probe.docker

C17_OverrideBypassesDetection ==
    (prog \in {"kernel", "kernelsig"} /\ probe.done /\ probe.override # "") =>
        /\ ~stepFailed
        /\ executable = probe.override

\* C18: after a run that exits with a non-zero status every destination
\* artifact is as it was before the run.
C18_FailedRunLeavesArtifactsUntouched ==
    (Exited /\ exitStatus # 0) => \A n \in DestNames(prog) : dest[n] = OldFile

\* the container-run command was created: main got as far as dockerRun
RunCommandCreated == EventIndexes("start") \cup EventIndexes("run") # {}

\* C19: in part_002, when fatal() was called and main returns after the
\* container-run command was created, a stop command (issued only if the
\* run did not succeed) comes before the one removal of the temporary
\* directory, which comes before the one exit, with status 1.
C19_DeferredStopThenRemoveThenExit ==
    (prog = "kernelsig" /\ Exited /\ fatalErr /\ RunCommandCreated) =>
        /\ exitStatus = 1
        /\ ~tmpExists
        /\ Cardinality(EventIndexes("rmtmp")) = 1
        /\ Cardinality(EventIndexes("exit")) = 1
        /\ \A i \in EventIndexes("stop"), j \in EventIndexes("rmtmp") : i < j
        /\ \A i \in EventIndexes("rmtmp"), j \in EventIndexes("exit") : i < j
        /\ StopCount > 0 => ~ProcessStateSuccess

C19_Witness ==
    /\ prog = "kernelsig"
    /\ Exited
    /\ fatalErr
    /\ child = "exited1"
    /\ Len(events) >= 3
    /\ events[Len(events) - 2].op = "stop"
    /\ events[Len(events) - 1].op = "rmtmp"
    /\ events[Len(events)].op = "exit"
    /\ exitStatus = 1

\* C20: no copy-out has started, and the temporary directory has not been
\* removed, while the container-run child is running; when the child was
\* killed the stop command was issued before the directory was removed.
C20_SharedDirUntouchedWhileChildRuns ==
    /\ (pc = "copy" \/ EventIndexes("copy") # {}) => child = "exited0"
    /\ (tmpCreated /\ ~tmpExists) =>
          /\ child # "running"
          /\ child = "killed" =>
                \E i \in EventIndexes("stop") : \A j \in EventIndexes("rmtmp") : i < j

C20_Witness ==
    /\ prog = "kernelsig"
    /\ tmpCreated
    /\ ~tmpExists
    /\ child = "killed"
    /\ StopCount = 1

CompileCalls == {i \in 1..Len(dmake) : dmake[i].target = "compile"}

\* C23: the -j argument of every compile invocation of make is at most the
\* number of available CPUs.
C23_JobsAtMostCpuCount ==
    \A i \in CompileCalls : dmake[i].jobs <= dcpu

\* C24: every compile invocation of make happens on a .config that was
\* reconciled with olddefconfig after the override block was appended.
C24_CompileOnReconciledConfig ==
    \A i \in CompileCalls : dmake[i].config = "reconciled"

\* the patch whose application failed: the one that could not be opened, or
\* the last one handed to the patch tool
FailedPatch ==
    IF dlog[Len(dlog)].what = "open"
    THEN dglob[Len(dapplied) + 1]
    ELSE dapplied[Len(dapplied)]

\* C25: when applying a patch fails no later patch is applied and the
\* driver's output names the patch that failed, in the error or in the
\* last line printed before it.
C25_FailedPatchIsIdentified ==
    dresult["Patch"] = "fail" =>
        /\ dpc = "exited"
        /\ IsPrefix(dapplied, dglob)
        /\ \/ dlog[Len(dlog)].name = FailedPatch
           \/ /\ Len(dlog) > 1
              /\ dlog[Len(dlog) - 1] = LogLine("applying", FailedPatch)

MissingFinds == {i \in EventIndexes("find") : events[i].flags = "missing"}

EngineCalls ==
    EventIndexes("build") \cup EventIndexes("start") \cup EventIndexes("run")

\* C21: a file that find locates in neither place fails the lookup, after
\* which neither the image build nor the container run is invoked and the
\* run exits non-zero; a file in both places is found in the current
\* directory.
C21_MissingFileFailsBeforeEngine ==
    /\ find(TRUE, TRUE) = [err |-> FALSE, path |-> "cwd"]
    /\ MissingFinds # {} =>
          /\ \A i \in MissingFinds : ~events[i].ok
          /\ EngineCalls = {}
          /\ Exited => exitStatus # 0

C21_Witness ==
    /\ prog = "kernelsig"
    /\ Exited
    /\ exitStatus = 1
    /\ Cardinality(EventIndexes("find")) = 2
    /\ events[Len(events) - 2].op = "find"
    /\ events[Len(events) - 2].flags = "missing"
    /\ ~events[Len(events) - 2].ok

KeepId == "--userns=keep-id"

\* C22: the container-run command carries --userns=keep-id exactly when the
\* binary it runs is podman, for a detected and for an overridden engine.
C22_KeepIdIffEngineIsPodman ==
    probe.done =>
        \A i \in EventIndexes("start") :
            events[i].flags = KeepId <=> Lookup(events[i].arg) = "/usr/bin/podman"

\* C26: the image build and the container run of one run invoke the same
\* binary.
C26_BuildAndRunUseSameBinary ==
    probe.done =>
        \A i \in EventIndexes("build"), j \in EventIndexes("start") :
            events[i].ok => Lookup(events[i].arg) = Lookup(events[j].arg)

\* C27: the container an invocation runs is created from the image that
\* the same invocation built.
C27_RunsOwnImage ==
    \A i \in Invocations : inv[i].ran # NoImage => inv[i].ran = i
====
